---- MODULE Spec2Model ----
(***************************************************************************)
(* Model of the U4 value type of src/lib.rs: a 4-bit unsigned integer kept *)
(* as an array of four booleans (index 0 = most significant), with its     *)
(* conversions, ripple-carry addition, ripple-borrow subtraction, bitwise  *)
(* operators, rotations and the hexadecimal text path.                     *)
(*                                                                         *)
(* The library is pure; the state machine is a caller that holds two U4    *)
(* locals `a` and `b` (as the tests of lib.rs do), calls one operation per *)
(* step and keeps the call and its outcome in `last`.                      *)
(***************************************************************************)
EXTENDS Integers, Sequences, FiniteSets, TLC

VARIABLES a, b, last, panicked

vars == <<a, b, last, panicked>>

(***************************************************************************)
(* Bounds of the model.                                                    *)
(***************************************************************************)
\* largest rotation count tried
MaxRot == 12
\* number of bytes that may follow the first byte of a buffer
MaxTail == 1
\* longest hexadecimal text built over the reduced alphabet
MaxHexLen == 4

(***************************************************************************)
(* Constants of the program.                                               *)
(***************************************************************************)
BITS == 4

\* largest value of the u8 type
U8_MAX == 255

Byte == 0..U8_MAX

Idx == 0..(BITS - 1)

MIN == [i \in Idx |-> FALSE]

MAX == [i \in Idx |-> TRUE]

\* outcomes of a call
Ok(v) == [kind |-> "ok", val |-> v]

Err(e) == [kind |-> e, val |-> MIN]

Panic == [kind |-> "panic", val |-> MIN]

(***************************************************************************)
(* Conversions.                                                            *)
(***************************************************************************)
\* (u & (1 << i)) != 0
TestBit(u, i) == (u \div (2 ^ i)) % 2 = 1

reverse(bits) == [i \in Idx |-> bits[BITS - 1 - i]]

\* from_u8 without bits.reverse()
from_u8_unreversed(u) == [i \in Idx |-> TestBit(u, i)]

from_u8(u) == reverse([i \in Idx |-> TestBit(u, i)])

RECURSIVE to_u8_loop(_, _, _)
to_u8_loop(bits, i, sum) ==
    IF i = BITS THEN sum
    ELSE to_u8_loop(bits, i + 1,
                    IF bits[BITS - i - 1] THEN (sum + 2 ^ i) ELSE sum)

\* to_u8 whose loop starts at 1 and misses the least significant bit
to_u8_from_one(v) == to_u8_loop(v, 1, 0)

to_u8(v) == to_u8_loop(v, 0, 0)

\* from_bytes without bits.reverse()
from_bytes_unreversed(buf) ==
    IF Len(buf) = 0 THEN Panic
    ELSE Ok([i \in Idx |-> TestBit(buf[1], i)])

\* a[0] is a checked index: an empty slice panics
from_bytes(buf) ==
    IF Len(buf) = 0 THEN Panic
    ELSE Ok(reverse([i \in Idx |-> TestBit(buf[1], i)]))

(***************************************************************************)
(* Bitwise operators.                                                      *)
(***************************************************************************)
bitxor(self, rhs) == [i \in Idx |-> self[i] # rhs[i]]

bitor(self, rhs) == [i \in Idx |-> self[i] \/ rhs[i]]

(***************************************************************************)
(* Addition: one iteration of the loop of Add::add, then the loop from     *)
(* index 3 down to index 0.  The carry left after index 0 is dropped.      *)
(***************************************************************************)
\* AddStep that drops the carry coming into a position where both bits are set
AddStepDropsCarry(x, y, carry) ==
    IF x /\ y THEN [carry |-> TRUE, bit |-> FALSE]
    ELSE IF ~x /\ ~y THEN [carry |-> FALSE, bit |-> carry]
    ELSE [carry |-> carry, bit |-> ~carry]

\* AddStep whose mixed case looks at the left operand only
AddStepLeftOnly(x, y, carry) ==
    IF x /\ y THEN [carry |-> TRUE, bit |-> carry]
    ELSE IF ~x /\ ~y THEN [carry |-> FALSE, bit |-> carry]
    ELSE IF x THEN [carry |-> carry, bit |-> ~carry]
    ELSE [carry |-> FALSE, bit |-> TRUE]

AddStep(x, y, carry) ==
    IF x /\ y
      THEN (IF carry THEN [carry |-> TRUE, bit |-> TRUE]
                     ELSE [carry |-> TRUE, bit |-> FALSE])
    ELSE IF ~x /\ ~y
      THEN (IF carry THEN [carry |-> FALSE, bit |-> TRUE]
                     ELSE [carry |-> FALSE, bit |-> FALSE])
    ELSE (IF carry THEN [carry |-> TRUE, bit |-> FALSE]
                   ELSE [carry |-> FALSE, bit |-> TRUE])

RECURSIVE add_loop(_, _, _, _, _)
add_loop(self, rhs, i, bits, carry) ==
    IF i < 0 THEN bits
    ELSE LET r == AddStep(self[i], rhs[i], carry)
         IN  add_loop(self, rhs, i - 1, [bits EXCEPT ![i] = r.bit], r.carry)

add(self, rhs) == add_loop(self, rhs, BITS - 1, MIN, FALSE)

(***************************************************************************)
(* Subtraction: one iteration of the loop of Sub::sub, then the loop from  *)
(* index 3 down to index 0.  The loop state carries the iterations made so *)
(* far (index, operand bits, borrow in, bit written, borrow out).          *)
(***************************************************************************)
\* SubStep that keeps the borrow in the 1 - 1 case with a borrow coming in
SubStepKeepsBorrow(x, y, carry) ==
    IF x /\ y THEN [carry |-> carry, bit |-> carry]
    ELSE IF ~x /\ ~y THEN [carry |-> carry, bit |-> carry]
    ELSE IF ~x /\ y THEN [carry |-> TRUE, bit |-> ~carry]
    ELSE [carry |-> FALSE, bit |-> ~carry]

SubStep(x, y, carry) ==
    IF x /\ y
      THEN (IF carry THEN [carry |-> FALSE, bit |-> TRUE]
                     ELSE [carry |-> FALSE, bit |-> FALSE])
    ELSE IF ~x /\ ~y
      THEN (IF carry THEN [carry |-> TRUE, bit |-> TRUE]
                     ELSE [carry |-> FALSE, bit |-> FALSE])
    ELSE IF ~x /\ y
      THEN (IF carry THEN [carry |-> TRUE, bit |-> FALSE]
                     ELSE [carry |-> TRUE, bit |-> TRUE])
    ELSE (IF carry THEN [carry |-> FALSE, bit |-> FALSE]
                   ELSE [carry |-> FALSE, bit |-> TRUE])

RECURSIVE sub_loop(_, _, _, _, _, _)
sub_loop(self, rhs, i, bits, carry, steps) ==
    IF i < 0 THEN [bits |-> bits, steps |-> steps]
    ELSE LET r == SubStep(self[i], rhs[i], carry)
         IN  sub_loop(self, rhs, i - 1, [bits EXCEPT ![i] = r.bit], r.carry,
                      Append(steps, [i |-> i, x |-> self[i], y |-> rhs[i],
                                     cin |-> carry, bit |-> r.bit,
                                     cout |-> r.carry]))

sub_run(self, rhs) == sub_loop(self, rhs, BITS - 1, MIN, FALSE, <<>>)

sub(self, rhs) == sub_run(self, rhs).bits

wrapping_add(self, rhs) == add(self, rhs)

wrapping_sub(self, rhs) == sub(self, rhs)

(***************************************************************************)
(* Rotations.  The index arithmetic is done in usize.  In rotate_right the *)
(* difference i + BITS - n is negative when n > i + BITS: a build with     *)
(* overflow checks (debug) panics there, a build without them (release)    *)
(* wraps modulo 2^64, and since 2^64 is a multiple of BITS the wrapped     *)
(* value taken % BITS is the floored remainder of the true difference.     *)
(***************************************************************************)
\* rotate_left that reads one index too far
rotate_left_off_by_one(self, n) == [i \in Idx |-> self[(i + n + 1) % BITS]]

rotate_left(self, n) == [i \in Idx |-> self[(i + n) % BITS]]

rotate_right(self, n, checks) ==
    IF checks /\ (\E i \in Idx : i + BITS < n)
      THEN Panic
      ELSE Ok([i \in Idx |-> self[(i + BITS - n) % BITS]])

(***************************************************************************)
(* The hex codec (module hex).  A text is a sequence of one-character      *)
(* strings.  encode_hex writes two lowercase digits per byte, the high     *)
(* nibble first; decode_hex fails on a text of odd length or with a        *)
(* character that is not a hex digit, and otherwise reads a byte from each *)
(* pair of digits.                                                         *)
(***************************************************************************)
HexDigits == <<"0", "1", "2", "3", "4", "5", "6", "7",
               "8", "9", "a", "b", "c", "d", "e", "f">>

IsHexDigit(c) == \E k \in 1..16 : HexDigits[k] = c

DigitValue(c) == (CHOOSE k \in 1..16 : HexDigits[k] = c) - 1

RECURSIVE encode_hex(_)
encode_hex(bytes) ==
    IF bytes = <<>> THEN <<>>
    ELSE <<HexDigits[(Head(bytes) \div 16) + 1],
           HexDigits[(Head(bytes) % 16) + 1]>> \o encode_hex(Tail(bytes))

decode_hex(s) ==
    IF Len(s) % 2 # 0 \/ (\E k \in 1..Len(s) : ~IsHexDigit(s[k]))
      THEN [kind |-> "InvalidHexText", bytes |-> <<>>]
      ELSE [kind |-> "ok",
            bytes |-> [k \in 1..(Len(s) \div 2) |->
                         16 * DigitValue(s[2 * k - 1]) + DigitValue(s[2 * k])]]

to_le_bytes(u) == <<u>>

from_hex_str(s) ==
    LET d == decode_hex(s)
    IN  IF d.kind # "ok" THEN Err(d.kind) ELSE from_bytes(d.bytes)

to_hex_str(v) == encode_hex(to_le_bytes(to_u8(v)))

(***************************************************************************)
(* Inputs of the calls.                                                    *)
(***************************************************************************)
SeqsUpTo(S, k) == UNION {[1..m -> S] : m \in 0..k}

\* a buffer is empty, or any first byte followed by a short tail
TailBytes == {U8_MAX}

Buffers ==
    {<<>>} \cup {<<x>> \o t : x \in Byte, t \in SeqsUpTo(TailBytes, MaxTail)}

\* the hex digits and one character that is not a hex digit
TextChars == {HexDigits[k] : k \in 1..16} \cup {"g"}

LongTextChars == {"0", "b", "g"}

\* every text of at most one byte's worth of characters, and longer texts
\* over the reduced alphabet
HexTexts == SeqsUpTo(TextChars, 2) \cup SeqsUpTo(LongTextChars, MaxHexLen)

Slots == {"a", "b"}

(***************************************************************************)
(* The caller.                                                             *)
(***************************************************************************)
Arg(slot) == IF slot = "a" THEN a ELSE b

Store(slot, v) ==
    /\ a' = IF slot = "a" THEN v ELSE a
    /\ b' = IF slot = "b" THEN v ELSE b

NoCall ==
    [op |-> "none", lhs |-> MIN, rhs |-> MIN, n |-> 0, byte |-> 0,
     buf |-> <<>>, text |-> <<>>, kind |-> "ok", val |-> MIN,
     str |-> <<>>, num |-> 0, steps |-> <<>>, checks |-> FALSE]

\* the values a caller can construct: U4::from_u8 of a byte, MIN, MAX
Start == {from_u8(u) : u \in Byte} \cup {MIN, MAX}

\* let a = U4::from_u8(..); let b = U4::from_u8(..);
Init ==
    /\ a \in Start
    /\ b \in Start
    /\ last = NoCall
    /\ panicked = FALSE

\* let a = U4::MIN; let b = U4::MAX;
InitCodec ==
    /\ a = MIN
    /\ b = MAX
    /\ last = NoCall
    /\ panicked = FALSE

\* a call that returns a U4 into a local
Returns(slot, call, v) ==
    /\ Store(slot, v)
    /\ last' = [call EXCEPT !.kind = "ok", !.val = v]
    /\ UNCHANGED panicked

\* a call that ends without a U4: an error value or a panic
Fails(call, kind) ==
    /\ last' = [call EXCEPT !.kind = kind]
    /\ panicked' = (kind = "panic")
    /\ UNCHANGED <<a, b>>

Finish(slot, call, out) ==
    IF out.kind = "ok" THEN Returns(slot, call, out.val)
                       ELSE Fails(call, out.kind)

FromU8(u) ==
    /\ ~panicked
    /\ Returns("a", [NoCall EXCEPT !.op = "from_u8", !.byte = u], from_u8(u))

ToU8(slot) ==
    /\ ~panicked
    /\ last' = [NoCall EXCEPT !.op = "to_u8", !.lhs = Arg(slot),
                               !.num = to_u8(Arg(slot))]
    /\ UNCHANGED <<a, b, panicked>>

Add(slot) ==
    /\ ~panicked
    /\ Returns(slot, [NoCall EXCEPT !.op = "add", !.lhs = a, !.rhs = b],
               add(a, b))

Sub(slot) ==
    /\ ~panicked
    /\ Returns(slot, [NoCall EXCEPT !.op = "sub", !.lhs = a, !.rhs = b,
                                    !.steps = sub_run(a, b).steps],
               sub(a, b))

WrappingAdd(slot) ==
    /\ ~panicked
    /\ Returns(slot,
               [NoCall EXCEPT !.op = "wrapping_add", !.lhs = a, !.rhs = b],
               wrapping_add(a, b))

WrappingSub(slot) ==
    /\ ~panicked
    /\ Returns(slot,
               [NoCall EXCEPT !.op = "wrapping_sub", !.lhs = a, !.rhs = b],
               wrapping_sub(a, b))

BitXor(slot) ==
    /\ ~panicked
    /\ Returns(slot, [NoCall EXCEPT !.op = "bitxor", !.lhs = a, !.rhs = b],
               bitxor(a, b))

BitOr(slot) ==
    /\ ~panicked
    /\ Returns(slot, [NoCall EXCEPT !.op = "bitor", !.lhs = a, !.rhs = b],
               bitor(a, b))

RotateLeft(slot, n) ==
    /\ ~panicked
    /\ Returns(slot,
               [NoCall EXCEPT !.op = "rotate_left", !.lhs = Arg(slot), !.n = n],
               rotate_left(Arg(slot), n))

\* the build decides whether usize arithmetic is checked
RotateRight(slot, n, checks) ==
    /\ ~panicked
    /\ Finish(slot,
              [NoCall EXCEPT !.op = "rotate_right", !.lhs = Arg(slot), !.n = n,
                             !.checks = checks],
              rotate_right(Arg(slot), n, checks))

FromBytes(buf) ==
    /\ ~panicked
    /\ Finish("a", [NoCall EXCEPT !.op = "from_bytes", !.buf = buf],
              from_bytes(buf))

FromHexStr(s) ==
    /\ ~panicked
    /\ Finish("a", [NoCall EXCEPT !.op = "from_hex_str", !.text = s],
              from_hex_str(s))

ToHexStr(slot) ==
    /\ ~panicked
    /\ last' = [NoCall EXCEPT !.op = "to_hex_str", !.lhs = Arg(slot),
                               !.str = to_hex_str(Arg(slot))]
    /\ UNCHANGED <<a, b, panicked>>

\* the arithmetic, bitwise and rotation operations on values built from bytes
Next ==
    \/ \E slot \in Slots : ToU8(slot)
    \/ \E slot \in Slots : Add(slot)
    \/ \E slot \in Slots : Sub(slot)
    \/ \E slot \in Slots : WrappingAdd(slot)
    \/ \E slot \in Slots : WrappingSub(slot)
    \/ \E slot \in Slots : BitXor(slot)
    \/ \E slot \in Slots : BitOr(slot)
    \/ \E slot \in Slots, n \in 0..MaxRot : RotateLeft(slot, n)
    \/ \E slot \in Slots, n \in 0..MaxRot, checks \in BOOLEAN :
          RotateRight(slot, n, checks)

Spec == Init /\ [][Next]_vars

\* the byte and text paths
NextCodec ==
    \/ \E u \in Byte : FromU8(u)
    \/ \E slot \in Slots : ToU8(slot)
    \/ \E buf \in Buffers : FromBytes(buf)
    \/ \E s \in HexTexts : FromHexStr(s)
    \/ \E slot \in Slots : ToHexStr(slot)

SpecCodec == InitCodec /\ [][NextCodec]_vars

(***************************************************************************)
(* Properties.                                                             *)
(***************************************************************************)
Pow2(k) == 2 ^ k

\* the U4 values a state holds
Held == {a, b, last.lhs, last.rhs, last.val}

IsU4(v) == DOMAIN v = Idx /\ \A i \in Idx : v[i] \in BOOLEAN

\* the full-subtractor table of the specification:
\* <<a, b, borrow-in>> :> <<diff-bit, borrow-out>>
SpecSubTable ==
    (<<TRUE, TRUE, FALSE>> :> <<FALSE, FALSE>>) @@
    (<<TRUE, TRUE, TRUE>> :> <<TRUE, FALSE>>) @@
    (<<FALSE, FALSE, FALSE>> :> <<FALSE, FALSE>>) @@
    (<<FALSE, FALSE, TRUE>> :> <<TRUE, TRUE>>) @@
    (<<FALSE, TRUE, FALSE>> :> <<TRUE, TRUE>>) @@
    (<<FALSE, TRUE, TRUE>> :> <<FALSE, TRUE>>) @@
    (<<TRUE, FALSE, FALSE>> :> <<TRUE, FALSE>>) @@
    (<<TRUE, FALSE, TRUE>> :> <<FALSE, FALSE>>)

\* C1: after a - b or a.wrapping_sub(b), the numeric value of the result is
\* (to_u8(a) - to_u8(b)) mod 16, for every pair of operands.
C1_SubIsModular ==
    last.op \in {"sub", "wrapping_sub"} =>
        /\ last.kind = "ok"
        /\ to_u8(last.val) = (to_u8(last.lhs) - to_u8(last.rhs)) % 16

\* C2: after a + b or a.wrapping_add(b), the call has returned a value whose
\* numeric value is (to_u8(a) + to_u8(b)) mod 16: the carry out of index 0 is
\* dropped and no pair of operands makes the call fail.
C2_AddIsModular ==
    last.op \in {"add", "wrapping_add"} =>
        /\ last.kind = "ok"
        /\ to_u8(last.val) = (to_u8(last.lhs) + to_u8(last.rhs)) % 16

\* C2 witness: 12 + 12 has returned 8, the carry out of index 0 dropped.
C2_Witness ==
    /\ last.op = "add"
    /\ to_u8(last.lhs) = 12
    /\ to_u8(last.rhs) = 12
    /\ to_u8(last.val) = 8

\* C3: from_u8 of any byte n returns the value whose to_u8 is n mod 16, never
\* an error, with bits[0] the bit of weight 8 and bits[3] the bit of weight 1.
C3_FromU8RoundTrip ==
    last.op = "from_u8" =>
        /\ last.kind = "ok"
        /\ to_u8(last.val) = last.byte % 16
        /\ last.byte < 16 => to_u8(last.val) = last.byte
        /\ last.val[0] = ((last.byte \div 8) % 2 = 1)
        /\ last.val[BITS - 1] = (last.byte % 2 = 1)

\* C3 witness: from_u8(27) has returned the value 11 (27 mod 16).
C3_Witness ==
    /\ last.op = "from_u8"
    /\ last.byte = 27
    /\ to_u8(last.val) = 11

\* C4: from_bytes of an empty buffer, and from_hex_str of the empty text,
\* end in the error EmptyInput returned to the caller.
C4_EmptyInputIsError ==
    (\/ last.op = "from_bytes" /\ last.buf = <<>>
     \/ last.op = "from_hex_str" /\ last.text = <<>>)
        => last.kind = "EmptyInput"

\* C5: rotate_left and rotate_right return a value for every n, the value
\* depends only on n mod 4, and a rotation by a multiple of 4 returns v.
C5_RotationsTotal ==
    /\ last.op = "rotate_left" =>
          /\ last.kind = "ok"
          /\ last.val = rotate_left(last.lhs, last.n % BITS)
          /\ last.n % BITS = 0 => last.val = last.lhs
    /\ last.op = "rotate_right" =>
          /\ last.kind = "ok"
          /\ last.val = rotate_right(last.lhs, last.n % BITS, last.checks).val
          /\ last.n % BITS = 0 => last.val = last.lhs

\* C6: to_hex_str yields the two lowercase digits of the byte, high nibble
\* first; from_hex_str of the text of any v in 0..15 succeeds and returns
\* from_u8(v); from_bytes of a one-byte buffer [x] returns from_u8(x).
C6_HexRoundTrip ==
    /\ last.op = "to_hex_str" =>
          last.str = <<"0", HexDigits[to_u8(last.lhs) + 1]>>
    /\ last.op = "from_hex_str" =>
          \A v \in 0..15 :
              last.text = to_hex_str(from_u8(v)) =>
                  last.kind = "ok" /\ last.val = from_u8(v)
    /\ (last.op = "from_bytes" /\ Len(last.buf) = 1) =>
          last.kind = "ok" /\ last.val = from_u8(last.buf[1])

\* C6 witness: from_hex_str("0b"), the text of 11, has returned the value 11.
C6_Witness ==
    /\ last.op = "from_hex_str"
    /\ last.text = <<"0", "b">>
    /\ last.text = to_hex_str(from_u8(11))
    /\ to_u8(last.val) = 11

\* C7: a + b, a | b and a ^ b equal, bit for bit, the result of the same
\* operator with the operands exchanged.
C7_Commutative ==
    /\ last.op = "add" => last.val = add(last.rhs, last.lhs)
    /\ last.op = "bitor" => last.val = bitor(last.rhs, last.lhs)
    /\ last.op = "bitxor" => last.val = bitxor(last.rhs, last.lhs)

\* C7 witness: an addition of two different operands, 3 + 12, has returned.
C7_Witness ==
    /\ last.op = "add"
    /\ to_u8(last.lhs) = 3
    /\ to_u8(last.rhs) = 12
    /\ to_u8(last.val) = 15

\* C8: for n in 0..3 and v of numeric value x, rotate_left(v, n) has value
\* (x * 2^n mod 16) + (x div 2^(4-n)), rotate_right(v, n) has value
\* (x div 2^n) + (x * 2^(4-n) mod 16), and rotate_right undoes rotate_left.
C8_RotationValue ==
    LET x == to_u8(last.lhs)
        k == last.n
    IN  /\ (last.op = "rotate_left" /\ k \in 0..3) =>
              /\ to_u8(last.val) =
                     ((x * Pow2(k)) % 16) + (x \div Pow2(BITS - k))
              /\ \A checks \in BOOLEAN :
                     rotate_right(last.val, k, checks) = Ok(last.lhs)
        /\ (last.op = "rotate_right" /\ k \in 0..3) =>
              /\ last.kind = "ok"
              /\ to_u8(last.val) =
                     (x \div Pow2(k)) + ((x * Pow2(BITS - k)) % 16)

\* C8 witness: rotate_left(2, 3) has returned 1.
C8_Witness ==
    /\ last.op = "rotate_left"
    /\ to_u8(last.lhs) = 2
    /\ last.n = 3
    /\ to_u8(last.val) = 1

\* C9: a subtraction makes one step per index, 3 down to 0, the borrow
\* starts false and is handed from each step to the next, each step's
\* (difference bit, borrow out) is the row of the specification's table for
\* its (a bit, b bit, borrow in), and the result holds the difference bits.
C9_SubFollowsTable ==
    last.op = "sub" =>
        /\ Len(last.steps) = BITS
        /\ \A k \in 1..BITS :
              LET st == last.steps[k]
              IN  /\ st.i = BITS - k
                  /\ st.x = last.lhs[st.i]
                  /\ st.y = last.rhs[st.i]
                  /\ st.cin = (IF k = 1 THEN FALSE ELSE last.steps[k - 1].cout)
                  /\ <<st.bit, st.cout>> = SpecSubTable[<<st.x, st.y, st.cin>>]
                  /\ last.val[st.i] = st.bit

\* C9 witness: a subtraction has made a step with both operand bits set and
\* a borrow coming in (2 - 3, at index 2).
C9_Witness ==
    /\ last.op = "sub"
    /\ to_u8(last.lhs) = 2
    /\ to_u8(last.rhs) = 3
    /\ \E k \in 1..Len(last.steps) :
          last.steps[k].x /\ last.steps[k].y /\ last.steps[k].cin

\* C10: every value held after any sequence of add, sub, xor, or and
\* rotations has exactly 4 boolean bits and a numeric value in 0..15, and two
\* held values are equal bit for bit exactly when their numeric values are.
C10_ValuesWellFormed ==
    /\ \A v \in Held : IsU4(v) /\ to_u8(v) \in 0..15
    /\ \A v, w \in Held : (v = w) <=> (to_u8(v) = to_u8(w))

\* C10 witness: after a rotation of a value produced by a subtraction, two
\* different values are held.
C10_Witness ==
    /\ last.op = "rotate_right"
    /\ last.kind = "ok"
    /\ last.n = 4
    /\ a # b
    /\ to_u8(a) = 15
    /\ to_u8(b) = 14

====
